---- MODULE Spec2Model ----
(***************************************************************************)
(* The DLP pre-operation gates of the repository, one state machine per   *)
(* program (each source file holds one or two `package main` programs):   *)
(*   part_000   commit-range scan with a final-state pass (flaggedFiles)  *)
(*   part_001   last-commit scan, ScanFile pushes after each clean file   *)
(*   part_002   commit-range scan that stops at the first finding         *)
(*   part_003a  last-commit scan with ProxyCheck (part_003, 1st program)  *)
(*   part_003b  last-commit scan, one push after the loop (2nd program)   *)
(*   main.go    last-commit scan, marker set around the whole scan        *)
(* File content is abstracted to what DLPScan answers for it: "clean" (no *)
(* finding), "dirty" (one or more findings), or "missing" (no such file). *)
(***************************************************************************)
EXTENDS Integers, Sequences, FiniteSets, TLC

\* Bounds of the model.
MaxPaths == 2
MaxCommits == 2

Paths == 1..MaxPaths
\* strings.Split(strings.TrimSpace(""), "\n") is [""]: the empty file name.
EmptyPath == 0

V000 == "part_000"
V001 == "part_001"
V002 == "part_002"
V003a == "part_003a"
V003b == "part_003b"
VMain == "main.go"
VHttp == "main.go/http"
Variants == {V000, V001, V002, V003a, V003b, VMain, VHttp}
RangeVariants == {V000, V002}
LastCommitVariants == {V001, V003a, V003b, VMain}
PushVariants == {V001, V003b}

Contents == {"clean", "dirty", "missing"}

VARIABLES
  variant,        \* which program runs
  upstream,       \* environment: an upstream is configured for the branch
  commits,        \* environment: the paths each commit changes, newest first
                  \* (last-commit programs: one entry, HEAD~1..HEAD)
  head,           \* environment: content of each path at HEAD
  pc,             \* position of main
  ci,             \* index of the commit being scanned
  fi,             \* index into files
  files,          \* the file list being ranged over
  flaggedFiles,   \* part_000: map[string]bool, as its key set
  pending,        \* part_000: keys ScanFinalState's range has not visited yet
  allFilesClean,  \* part_003b
  marker,         \* GIT_HTTP_EXTRAHEADER is set in the process environment
  exitCode,       \* -1 while running, then the process exit status
  outcome,        \* "running", "clean", "findings", "error"
  err,            \* which error value was reported, "none" if none
  inspected,      \* history: DLPScan calls that returned a verdict
  inspectFailed,  \* history: some DLPScan call returned an error
  reads,          \* history: number of content reads (git show, ReadFile)
  listed,         \* history: the commit / changed-file listing was produced
  pushes,         \* history: number of `git push` runs
  finalLog,       \* history: paths ScanFinalState passed to DLPScan, in order
  readFailure,    \* history: why a content read failed: "none", "missing", "ioerror"
  shown,          \* environment, as far as read: content `git show` printed
  wt,             \* environment, as far as read: content of the working tree
  run,            \* part_000: 1, or 2 when the program is run a second time
  prev,           \* part_000: how the first run ended
  request,        \* main.go middleware: the request being served
  response        \* main.go middleware: what became of it

envVars == <<variant, upstream, commits, head>>
progVars == <<pc, ci, fi, files, flaggedFiles, pending, allFilesClean, marker,
              exitCode, outcome, err>>
histVars == <<inspected, inspectFailed, reads, listed, pushes, finalLog, readFailure>>
memoVars == <<shown, wt>>
runVars == <<run, prev>>
httpVars == <<request, response>>
\* What no step of a gate program changes.
frameVars == <<envVars, runVars, httpVars>>
vars == <<variant, upstream, commits, head, pc, ci, fi, files, flaggedFiles,
          pending, allFilesClean, marker, exitCode, outcome, err, inspected,
          inspectFailed, reads, listed, pushes, finalLog, readFailure,
          shown, wt, run, prev, request, response>>

----------------------------------------------------------------------------
\* Helpers

RECURSIVE SortedSeq(_)
\* git prints changed paths in sorted order, one per line.
SortedSeq(S) ==
  IF S = {} THEN <<>>
  ELSE LET m == CHOOSE x \in S : \A y \in S : x <= y
       IN <<m>> \o SortedSeq(S \ {m})

\* files := strings.Split(strings.TrimSpace(string(output)), "\n")
Split(lines) == IF lines = <<>> THEN <<EmptyPath>> ELSE lines

Touched == UNION {commits[i] : i \in 1..Len(commits)}

\* The newest commit of the range that changes path p (commits are newest first).
Newest(p) ==
  CHOOSE i \in 1..Len(commits) : p \in commits[i] /\ \A j \in 1..(i-1) : p \notin commits[j]

\* What `git show <commit>:<file>` can print. "<commit>:" with an empty path
\* names the root tree, whose listing is inspected like a file's content.
\* A content already read is what it was (the range and the files do not
\* change during or between runs).
ShowContents(i, file) ==
  IF shown[i, file] # "unread" THEN {shown[i, file]}
  ELSE IF file = EmptyPath THEN {"clean", "dirty"}
  ELSE IF Newest(file) = i THEN {head[file]}
  ELSE Contents

\* What ioutil.ReadFile(file) can return from the working tree.
WorkTreeContents(file) ==
  IF file = EmptyPath THEN {"missing"}
  ELSE IF wt[file] # "unread" THEN {wt[file]}
  ELSE Contents

\* A read yields the content, or fails for a reason other than a missing file.
ReadResults(cs) == cs \cup {"ioerror"}

ReadFailed(r) == r \in {"missing", "ioerror"}

\* return len(resp.Result.Findings) > 0, nil
DLPScan(content) == content = "dirty"

Rec(phase, commit, path, found) ==
  [phase |-> phase, commit |-> commit, path |-> path, found |-> found]

\* os.Exit(code): the process ends at once, deferred calls do not run.
OsExit(code, oc, e) ==
  /\ pc' = "exited"
  /\ exitCode' = code
  /\ outcome' = oc
  /\ err' = e

\* main returns: its deferred calls run, the exit status is 0.
MainReturns ==
  /\ pc' = "exited"
  /\ exitCode' = 0
  /\ outcome' = "clean"
  /\ err' = "none"

\* Before a second run, and before a request is served.
NoRun == [exitCode |-> -1, outcome |-> "running", err |-> "none",
          readFailure |-> "none", finalLog |-> <<>>]
NoRequest == [method |-> "none", payload |-> "none"]
NoResponse == [status |-> "none", findings |-> FALSE]

----------------------------------------------------------------------------
Init ==
  /\ variant \in Variants
  /\ upstream \in (IF variant \in RangeVariants THEN BOOLEAN ELSE {TRUE})
  /\ commits \in (IF variant \in RangeVariants
                  THEN (IF upstream
                        THEN UNION {[1..n -> SUBSET Paths] : n \in 0..MaxCommits}
                        ELSE {<<>>})
                  ELSE IF variant = VHttp THEN {<<>>}
                  ELSE [1..1 -> SUBSET Paths])
  /\ head \in {h \in [Paths -> Contents] : \A p \in Paths : p \notin Touched => h[p] = "clean"}
  /\ pc = "main"
  /\ ci = 0
  /\ fi = 0
  /\ files = <<>>
  /\ flaggedFiles = {}
  /\ pending = {}
  /\ allFilesClean = TRUE
  /\ marker = FALSE
  /\ exitCode = -1
  /\ outcome = "running"
  /\ err = "none"
  /\ inspected = {}
  /\ inspectFailed = FALSE
  /\ reads = 0
  /\ listed = FALSE
  /\ pushes = 0
  /\ finalLog = <<>>
  /\ readFailure = "none"
  /\ shown = [i \in 1..MaxCommits, p \in 0..MaxPaths |-> "unread"]
  /\ wt = [p \in Paths |-> "unread"]
  /\ run = 1
  /\ prev = NoRun
  /\ request = NoRequest
  /\ response = NoResponse

----------------------------------------------------------------------------
\* part_000: commit range, then the final state of the flagged files

\* Mutant: a clean scan of a path removes it from the map.
FlagUpdate_Unflag(flagged, file, found) ==
  IF found THEN flagged \cup {file} ELSE flagged \ {file}

\* Mutant: every scanned path is flagged, whatever DLPScan answered.
FlagUpdate_Always(flagged, file, found) ==
  flagged \cup {file}

\* if foundSensitiveData { flaggedFiles[file] = true }
FlagUpdate(flagged, file, found) ==
  IF found THEN flagged \cup {file} ELSE flagged

\* Mutant: the final pass ranges over every path a commit of the range changed.
FinalKeys_AllTouched(flagged) == flagged \cup Touched

\* for file := range flaggedFiles
FinalKeys(flagged) == flagged

\* Mutant: a finding in a commit ends the run at once, as part_002 does.
OnVerdict_000_Abort(file, found) ==
  IF found
  THEN /\ OsExit(1, "findings", "none")
       /\ flaggedFiles' = flaggedFiles \cup {file}
       /\ UNCHANGED <<ci, fi>>
  ELSE /\ IF fi < Len(files)
          THEN fi' = fi + 1 /\ UNCHANGED <<ci, pc>>
          ELSE ci' = ci + 1 /\ pc' = "commits" /\ UNCHANGED fi
       /\ UNCHANGED <<flaggedFiles, exitCode, outcome, err>>

\* ScanCommit after DLPScan returned a verdict for files[fi]: a finding only
\* flags the file; the loop goes on, and after the last file ScanCommit
\* returns nil and main moves to the next commit.
OnVerdict_000(file, found) ==
  /\ flaggedFiles' = FlagUpdate(flaggedFiles, file, found)
  /\ IF fi < Len(files)
     THEN fi' = fi + 1 /\ UNCHANGED <<ci, pc>>
     ELSE ci' = ci + 1 /\ pc' = "commits" /\ UNCHANGED fi
  /\ UNCHANGED <<exitCode, outcome, err>>

\* main up to the commit loop: Setenv, defer Unsetenv, GetUnpushedCommits.
Main_000 ==
  /\ variant = V000
  /\ pc = "main"
  /\ marker' = TRUE
  /\ \/ /\ ~upstream
        /\ OsExit(1, "error", "no_upstream")
        /\ UNCHANGED <<ci, listed>>
     \/ /\ upstream
        /\ OsExit(1, "error", "rev_list")
        /\ UNCHANGED <<ci, listed>>
     \/ /\ upstream
        /\ listed' = TRUE
        /\ ci' = 1
        /\ pc' = "commits"
        /\ UNCHANGED <<exitCode, outcome, err>>
  /\ flaggedFiles' = {}
  /\ UNCHANGED <<fi, files, pending, allFilesClean>>
  /\ UNCHANGED <<inspected, inspectFailed, reads, readFailure, pushes, finalLog>>
  /\ UNCHANGED frameVars
  /\ UNCHANGED memoVars

\* ScanCommit's entry: GetChangedFilesInCommit(commit).
ScanCommit_000 ==
  /\ variant = V000
  /\ pc = "commits"
  /\ ci <= Len(commits)
  /\ \/ /\ OsExit(1, "error", "diff_tree")
        /\ UNCHANGED <<fi, files>>
     \/ /\ files' = Split(SortedSeq(commits[ci]))
        /\ fi' = 1
        /\ pc' = "files"
        /\ UNCHANGED <<exitCode, outcome, err>>
  /\ UNCHANGED <<ci, flaggedFiles, pending, allFilesClean, marker>>
  /\ UNCHANGED histVars
  /\ UNCHANGED frameVars
  /\ UNCHANGED memoVars

\* One iteration of ScanCommit's loop; after the last file ScanCommit returns
\* nil and main moves to the next commit.
ScanCommitFile_000 ==
  /\ variant = V000
  /\ pc = "files"
  /\ LET file == files[fi] IN
     \E r \in ReadResults(ShowContents(ci, file)), dlpOk \in BOOLEAN :
       /\ reads' = reads + 1
       /\ readFailure' = IF ReadFailed(r) THEN r ELSE readFailure
       /\ shown' = IF r \in Contents THEN [shown EXCEPT ![ci, file] = r] ELSE shown
       /\ IF ReadFailed(r)
          THEN /\ OsExit(1, "error", "show")
               /\ UNCHANGED <<ci, fi, flaggedFiles, inspected, inspectFailed>>
          ELSE IF ~dlpOk
          THEN /\ OsExit(1, "error", "inspect")
               /\ inspectFailed' = TRUE
               /\ UNCHANGED <<ci, fi, flaggedFiles, inspected>>
          ELSE /\ inspected' = inspected \cup {Rec("hist", ci, file, DLPScan(r))}
               /\ OnVerdict_000(file, DLPScan(r))
               /\ UNCHANGED inspectFailed
  /\ UNCHANGED <<files, pending, allFilesClean, marker>>
  /\ UNCHANGED <<listed, pushes, finalLog>>
  /\ UNCHANGED wt
  /\ UNCHANGED frameVars

\* The commit loop is over: main calls ScanFinalState, whose range starts.
StartFinalState_000 ==
  /\ variant = V000
  /\ pc = "commits"
  /\ ci > Len(commits)
  /\ pc' = "final"
  /\ pending' = FinalKeys(flaggedFiles)
  /\ UNCHANGED <<ci, fi, files, flaggedFiles, allFilesClean, marker, exitCode, outcome, err>>
  /\ UNCHANGED histVars
  /\ UNCHANGED frameVars
  /\ UNCHANGED memoVars

\* Mutant: a flagged file found clean in its final state is deleted from the
\* map.
OnFinalVerdict_Unflag(file, found) ==
  /\ IF found
     THEN OsExit(1, "findings", "none") /\ UNCHANGED <<pending, flaggedFiles>>
     ELSE /\ pending' = pending \ {file}
          /\ flaggedFiles' = flaggedFiles \ {file}
          /\ UNCHANGED <<pc, exitCode, outcome, err>>
  /\ UNCHANGED marker

\* ScanFinalState after DLPScan returned a verdict for a flagged file: a
\* finding returns true and main exits 1; otherwise the range goes on. The
\* map is only ranged over.
OnFinalVerdict(file, found) ==
  /\ IF found
     THEN OsExit(1, "findings", "none") /\ UNCHANGED pending
     ELSE /\ pending' = pending \ {file}
          /\ UNCHANGED <<pc, exitCode, outcome, err>>
  /\ UNCHANGED flaggedFiles
  /\ UNCHANGED marker

\* One iteration of ScanFinalState's range over the map (any key not yet
\* visited), or its return when the range is over, and what main does with
\* the result.
ScanFinalState_000 ==
  /\ variant = V000
  /\ pc = "final"
  /\ \/ /\ pending = {}
        /\ MainReturns
        /\ marker' = FALSE
        /\ UNCHANGED <<pending, inspected, inspectFailed, reads, readFailure, finalLog, wt>>
        /\ UNCHANGED flaggedFiles
     \/ \E file \in pending :
        \E r \in ReadResults(WorkTreeContents(file)), dlpOk \in BOOLEAN :
          /\ reads' = reads + 1
          /\ readFailure' = IF ReadFailed(r) THEN r ELSE readFailure
          /\ wt' = IF r \in Contents /\ file \in Paths THEN [wt EXCEPT ![file] = r] ELSE wt
          /\ IF ReadFailed(r)
             THEN /\ OsExit(1, "error", "read_file")
                  /\ UNCHANGED <<marker, pending, inspected, inspectFailed, finalLog>>
                  /\ UNCHANGED flaggedFiles
             ELSE IF ~dlpOk
             THEN /\ OsExit(1, "error", "inspect")
                  /\ inspectFailed' = TRUE
                  /\ finalLog' = Append(finalLog, file)
                  /\ UNCHANGED <<marker, pending, inspected>>
                  /\ UNCHANGED flaggedFiles
             ELSE /\ inspected' = inspected \cup {Rec("final", 0, file, DLPScan(r))}
                  /\ finalLog' = Append(finalLog, file)
                  /\ UNCHANGED inspectFailed
                  /\ OnFinalVerdict(file, DLPScan(r))
  /\ UNCHANGED <<ci, fi, files, allFilesClean>>
  /\ UNCHANGED <<listed, pushes>>
  /\ UNCHANGED shown
  /\ UNCHANGED frameVars

----------------------------------------------------------------------------
\* part_002: commit range, stop at the first finding

\* main up to the commit loop: Setenv, defer Unsetenv, GetCommitsToPush. There
\* is no upstream check: without an upstream `git rev-list @{u}..HEAD` fails.
Main_002 ==
  /\ variant = V002
  /\ pc = "main"
  /\ marker' = TRUE
  /\ \/ /\ OsExit(1, "error", "rev_list")
        /\ UNCHANGED <<ci, listed>>
     \/ /\ upstream
        /\ listed' = TRUE
        /\ ci' = 1
        /\ pc' = "commits"
        /\ UNCHANGED <<exitCode, outcome, err>>
  /\ UNCHANGED <<fi, files, flaggedFiles, pending, allFilesClean>>
  /\ UNCHANGED <<inspected, inspectFailed, reads, readFailure, pushes, finalLog>>
  /\ UNCHANGED frameVars
  /\ UNCHANGED memoVars

\* ScanCommit's entry: GetChangedFilesInCommit(commit).
ScanCommit_002 ==
  /\ variant = V002
  /\ pc = "commits"
  /\ ci <= Len(commits)
  /\ \/ /\ OsExit(1, "error", "diff_tree")
        /\ UNCHANGED <<fi, files>>
     \/ /\ files' = Split(SortedSeq(commits[ci]))
        /\ fi' = 1
        /\ pc' = "files"
        /\ UNCHANGED <<exitCode, outcome, err>>
  /\ UNCHANGED <<ci, flaggedFiles, pending, allFilesClean, marker>>
  /\ UNCHANGED histVars
  /\ UNCHANGED frameVars
  /\ UNCHANGED memoVars

\* One iteration of ScanCommit's loop: a finding returns true and main exits 1.
ScanCommitFile_002 ==
  /\ variant = V002
  /\ pc = "files"
  /\ LET file == files[fi] IN
     \E r \in ReadResults(ShowContents(ci, file)), dlpOk \in BOOLEAN :
       /\ reads' = reads + 1
       /\ readFailure' = IF ReadFailed(r) THEN r ELSE readFailure
       /\ IF ReadFailed(r)
          THEN /\ OsExit(1, "error", "show")
               /\ UNCHANGED <<ci, fi, inspected, inspectFailed>>
          ELSE IF ~dlpOk
          THEN /\ OsExit(1, "error", "inspect")
               /\ inspectFailed' = TRUE
               /\ UNCHANGED <<ci, fi, inspected>>
          ELSE /\ inspected' = inspected \cup {Rec("hist", ci, file, DLPScan(r))}
               /\ UNCHANGED inspectFailed
               /\ IF DLPScan(r)
                  THEN OsExit(1, "findings", "none") /\ UNCHANGED <<ci, fi>>
                  ELSE /\ IF fi < Len(files)
                          THEN fi' = fi + 1 /\ UNCHANGED <<ci, pc>>
                          ELSE ci' = ci + 1 /\ pc' = "commits" /\ UNCHANGED fi
                       /\ UNCHANGED <<exitCode, outcome, err>>
  /\ UNCHANGED <<files, flaggedFiles, pending, allFilesClean, marker>>
  /\ UNCHANGED <<listed, pushes, finalLog>>
  /\ UNCHANGED frameVars
  /\ UNCHANGED memoVars

\* The commit loop is over: main prints its last line and returns.
MainReturn_002 ==
  /\ variant = V002
  /\ pc = "commits"
  /\ ci > Len(commits)
  /\ MainReturns
  /\ marker' = FALSE
  /\ UNCHANGED <<ci, fi, files, flaggedFiles, pending, allFilesClean>>
  /\ UNCHANGED histVars
  /\ UNCHANGED frameVars
  /\ UNCHANGED memoVars

----------------------------------------------------------------------------
\* main.go (first program): last commit, marker set around the whole scan

\* main up to the file loop: Setenv, defer Unsetenv, GetChangedFiles.
Main_main ==
  /\ variant = VMain
  /\ pc = "main"
  /\ marker' = TRUE
  /\ \/ /\ OsExit(1, "error", "diff")
        /\ UNCHANGED <<fi, files, listed>>
     \/ /\ listed' = TRUE
        /\ files' = Split(SortedSeq(commits[1]))
        /\ fi' = 1
        /\ pc' = "files"
        /\ UNCHANGED <<exitCode, outcome, err>>
  /\ UNCHANGED <<ci, flaggedFiles, pending, allFilesClean>>
  /\ UNCHANGED <<inspected, inspectFailed, reads, readFailure, pushes, finalLog>>
  /\ UNCHANGED frameVars
  /\ UNCHANGED memoVars

\* The loop of main goes on to the next file; after the last one main returns
\* and the deferred Unsetenv runs.
Advance_main ==
  IF fi < Len(files)
  THEN /\ fi' = fi + 1
       /\ UNCHANGED <<pc, exitCode, outcome, err, marker>>
  ELSE /\ MainReturns
       /\ marker' = FALSE
       /\ UNCHANGED fi

\* Mutant: a finding is only printed and the loop goes on.
OnFound_main_Continue == Advance_main

\* main when ScanFile reports a finding: print and os.Exit(1) at once.
OnFound_main ==
  /\ OsExit(1, "findings", "none")
  /\ UNCHANGED <<fi, marker>>

\* One iteration of main's loop: skip "", else ScanFile; a finding exits 1;
\* after the last file main returns and the deferred Unsetenv runs.
ScanFile_main ==
  /\ variant = VMain
  /\ pc = "files"
  /\ LET file == files[fi]
     IN
     IF file = EmptyPath
     THEN Advance_main /\ UNCHANGED <<inspected, inspectFailed, reads, readFailure>>
     ELSE \E r \in ReadResults(WorkTreeContents(file)), dlpOk \in BOOLEAN :
       /\ reads' = reads + 1
       /\ readFailure' = IF ReadFailed(r) THEN r ELSE readFailure
       /\ IF ReadFailed(r)
          THEN /\ OsExit(1, "error", "read_file")
               /\ UNCHANGED <<fi, marker, inspected, inspectFailed>>
          ELSE IF ~dlpOk
          THEN /\ OsExit(1, "error", "inspect")
               /\ inspectFailed' = TRUE
               /\ UNCHANGED <<fi, marker, inspected>>
          ELSE /\ inspected' = inspected \cup {Rec("file", 1, file, DLPScan(r))}
               /\ UNCHANGED inspectFailed
               /\ IF DLPScan(r) THEN OnFound_main ELSE Advance_main
  /\ UNCHANGED <<ci, files, flaggedFiles, pending, allFilesClean>>
  /\ UNCHANGED <<listed, pushes, finalLog>>
  /\ UNCHANGED frameVars
  /\ UNCHANGED memoVars

----------------------------------------------------------------------------
\* part_001: last commit, ScanFile pushes after each clean file

\* main up to the file loop: GetChangedFiles.
Main_001 ==
  /\ variant = V001
  /\ pc = "main"
  /\ marker' = marker
  /\ \/ /\ OsExit(1, "error", "diff")
        /\ UNCHANGED <<fi, files, listed>>
     \/ /\ listed' = TRUE
        /\ files' = Split(SortedSeq(commits[1]))
        /\ fi' = 1
        /\ pc' = "files"
        /\ UNCHANGED <<exitCode, outcome, err>>
  /\ UNCHANGED <<ci, flaggedFiles, pending, allFilesClean>>
  /\ UNCHANGED <<inspected, inspectFailed, reads, readFailure, pushes, finalLog>>
  /\ UNCHANGED frameVars
  /\ UNCHANGED memoVars

\* One iteration of main's loop up to ScanFile's branch on the verdict: a
\* clean file sets the marker and goes on to RunGitPush, a file with findings
\* is skipped and the loop continues.
ScanFile_001 ==
  /\ variant = V001
  /\ pc = "files"
  /\ LET file == files[fi]
         Advance == IF fi < Len(files)
                    THEN /\ fi' = fi + 1
                         /\ UNCHANGED <<pc, exitCode, outcome, err>>
                    ELSE /\ MainReturns
                         /\ UNCHANGED fi
     IN
     IF file = EmptyPath
     THEN Advance /\ UNCHANGED <<marker, inspected, inspectFailed, reads, readFailure>>
     ELSE \E r \in ReadResults(WorkTreeContents(file)), dlpOk \in BOOLEAN :
       /\ reads' = reads + 1
       /\ readFailure' = IF ReadFailed(r) THEN r ELSE readFailure
       /\ IF ReadFailed(r)
          THEN /\ OsExit(1, "error", "read_file")
               /\ UNCHANGED <<fi, marker, inspected, inspectFailed>>
          ELSE IF ~dlpOk
          THEN /\ OsExit(1, "error", "inspect")
               /\ inspectFailed' = TRUE
               /\ UNCHANGED <<fi, marker, inspected>>
          ELSE /\ inspected' = inspected \cup {Rec("file", 1, file, DLPScan(r))}
               /\ UNCHANGED inspectFailed
               /\ IF ~DLPScan(r)
                  THEN /\ marker' = TRUE
                       /\ pc' = "push"
                       /\ UNCHANGED <<fi, exitCode, outcome, err>>
                  ELSE Advance /\ UNCHANGED marker
  /\ UNCHANGED <<ci, files, flaggedFiles, pending, allFilesClean>>
  /\ UNCHANGED <<listed, pushes, finalLog>>
  /\ UNCHANGED frameVars
  /\ UNCHANGED memoVars

\* RunGitPush inside ScanFile, then ScanFile's return (its deferred
\* ClearGitExtraHeader runs) and main's handling of the result.
RunGitPush_001 ==
  /\ variant = V001
  /\ pc = "push"
  /\ pushes' = pushes + 1
  /\ marker' = FALSE
  /\ \/ /\ OsExit(1, "error", "push")
        /\ UNCHANGED fi
     \/ IF fi < Len(files)
        THEN /\ fi' = fi + 1
             /\ pc' = "files"
             /\ UNCHANGED <<exitCode, outcome, err>>
        ELSE /\ MainReturns
             /\ UNCHANGED fi
  /\ UNCHANGED <<ci, files, flaggedFiles, pending, allFilesClean>>
  /\ UNCHANGED <<inspected, inspectFailed, reads, readFailure, listed, finalLog>>
  /\ UNCHANGED frameVars
  /\ UNCHANGED memoVars

----------------------------------------------------------------------------
\* part_003, first program: last commit, ProxyCheck on a finding

\* main up to the file loop: GetChangedFiles.
Main_003a ==
  /\ variant = V003a
  /\ pc = "main"
  /\ marker' = marker
  /\ \/ /\ OsExit(1, "error", "diff")
        /\ UNCHANGED <<fi, files, listed>>
     \/ /\ listed' = TRUE
        /\ files' = Split(SortedSeq(commits[1]))
        /\ fi' = 1
        /\ pc' = "files"
        /\ UNCHANGED <<exitCode, outcome, err>>
  /\ UNCHANGED <<ci, flaggedFiles, pending, allFilesClean>>
  /\ UNCHANGED <<inspected, inspectFailed, reads, readFailure, pushes, finalLog>>
  /\ UNCHANGED frameVars
  /\ UNCHANGED memoVars

\* One iteration of main's loop: ScanFile returns an error for a finding
\* (after ProxyCheck, which may itself fail), and main exits 1 on any error.
ScanFile_003a ==
  /\ variant = V003a
  /\ pc = "files"
  /\ LET file == files[fi]
         Advance == IF fi < Len(files)
                    THEN /\ fi' = fi + 1
                         /\ UNCHANGED <<pc, exitCode, outcome, err>>
                    ELSE /\ MainReturns
                         /\ UNCHANGED fi
     IN
     IF file = EmptyPath
     THEN Advance /\ UNCHANGED <<inspected, inspectFailed, reads, readFailure>>
     ELSE \E r \in ReadResults(WorkTreeContents(file)), dlpOk \in BOOLEAN, proxyOk \in BOOLEAN :
       /\ reads' = reads + 1
       /\ readFailure' = IF ReadFailed(r) THEN r ELSE readFailure
       /\ IF ReadFailed(r)
          THEN /\ OsExit(1, "error", "read_file")
               /\ UNCHANGED <<fi, inspected, inspectFailed>>
          ELSE IF ~dlpOk
          THEN /\ OsExit(1, "error", "inspect")
               /\ inspectFailed' = TRUE
               /\ UNCHANGED <<fi, inspected>>
          ELSE /\ inspected' = inspected \cup {Rec("file", 1, file, DLPScan(r))}
               /\ UNCHANGED inspectFailed
               /\ IF DLPScan(r)
                  THEN /\ OsExit(1, "error", IF proxyOk THEN "sensitive" ELSE "proxy")
                       /\ UNCHANGED fi
                  ELSE Advance
  /\ UNCHANGED <<ci, files, flaggedFiles, pending, allFilesClean, marker>>
  /\ UNCHANGED <<listed, pushes, finalLog>>
  /\ UNCHANGED frameVars
  /\ UNCHANGED memoVars

----------------------------------------------------------------------------
\* part_003, second program: last commit, one push after the loop

\* main up to the file loop: GetChangedFiles.
Main_003b ==
  /\ variant = V003b
  /\ pc = "main"
  /\ marker' = marker
  /\ \/ /\ OsExit(1, "error", "diff")
        /\ UNCHANGED <<fi, files, listed>>
     \/ /\ listed' = TRUE
        /\ files' = Split(SortedSeq(commits[1]))
        /\ fi' = 1
        /\ pc' = "files"
        /\ UNCHANGED <<exitCode, outcome, err>>
  /\ UNCHANGED <<ci, flaggedFiles, pending, allFilesClean>>
  /\ UNCHANGED <<inspected, inspectFailed, reads, readFailure, pushes, finalLog>>
  /\ UNCHANGED frameVars
  /\ UNCHANGED memoVars

\* One iteration of main's loop: ScanFile returns !found; the first file
\* that is not clean clears allFilesClean and breaks out of the loop.
ScanFile_003b ==
  /\ variant = V003b
  /\ pc = "files"
  /\ LET file == files[fi]
         Advance == /\ IF fi < Len(files)
                       THEN fi' = fi + 1 /\ UNCHANGED pc
                       ELSE pc' = "gate" /\ UNCHANGED fi
                    /\ UNCHANGED <<exitCode, outcome, err, allFilesClean>>
     IN
     IF file = EmptyPath
     THEN Advance /\ UNCHANGED <<inspected, inspectFailed, reads, readFailure>>
     ELSE \E r \in ReadResults(WorkTreeContents(file)), dlpOk \in BOOLEAN :
       /\ reads' = reads + 1
       /\ readFailure' = IF ReadFailed(r) THEN r ELSE readFailure
       /\ IF ReadFailed(r)
          THEN /\ OsExit(1, "error", "read_file")
               /\ UNCHANGED <<fi, allFilesClean, inspected, inspectFailed>>
          ELSE IF ~dlpOk
          THEN /\ OsExit(1, "error", "inspect")
               /\ inspectFailed' = TRUE
               /\ UNCHANGED <<fi, allFilesClean, inspected>>
          ELSE /\ inspected' = inspected \cup {Rec("file", 1, file, DLPScan(r))}
               /\ UNCHANGED inspectFailed
               /\ IF DLPScan(r)
                  THEN /\ allFilesClean' = FALSE
                       /\ pc' = "gate"
                       /\ UNCHANGED <<fi, exitCode, outcome, err>>
                  ELSE Advance
  /\ UNCHANGED <<ci, files, flaggedFiles, pending, marker>>
  /\ UNCHANGED <<listed, pushes, finalLog>>
  /\ UNCHANGED frameVars
  /\ UNCHANGED memoVars

\* After the loop: set the marker and go on to push, or exit 1.
Gate_003b ==
  /\ variant = V003b
  /\ pc = "gate"
  /\ IF allFilesClean
     THEN /\ marker' = TRUE
          /\ pc' = "push"
          /\ UNCHANGED <<exitCode, outcome, err>>
     ELSE /\ OsExit(1, "findings", "none")
          /\ UNCHANGED marker
  /\ UNCHANGED <<ci, fi, files, flaggedFiles, pending, allFilesClean>>
  /\ UNCHANGED histVars
  /\ UNCHANGED frameVars
  /\ UNCHANGED memoVars

\* RunGitPush (branch name, then `git push --set-upstream`) and main's
\* handling of its result: os.Exit(1) on failure, else return from main.
RunGitPush_003b ==
  /\ variant = V003b
  /\ pc = "push"
  /\ \/ /\ OsExit(1, "error", "branch")
        /\ UNCHANGED <<marker, pushes>>
     \/ /\ OsExit(1, "error", "push")
        /\ pushes' = pushes + 1
        /\ UNCHANGED marker
     \/ /\ MainReturns
        /\ pushes' = pushes + 1
        /\ marker' = FALSE
  /\ UNCHANGED <<ci, fi, files, flaggedFiles, pending, allFilesClean>>
  /\ UNCHANGED <<inspected, inspectFailed, reads, readFailure, listed, finalLog>>
  /\ UNCHANGED frameVars
  /\ UNCHANGED memoVars

----------------------------------------------------------------------------
\* main.go, second program: the HTTP payload middleware

\* The text of the literal "Test data" that inspectContent puts in its
\* request: no e-mail address in it.
TestData == "clean"

\* inspectContent: the request is built from the literal, not from content;
\* the result says whether the inspected item has findings.
inspectContent(content) == DLPScan(TestData)

\* The handler of payloadCheckMiddleware on one request: a POST body is read
\* and passed to inspectContent, either failure answers 500, the result is
\* printed, and the next handler is called.
payloadCheckMiddleware ==
  /\ variant = VHttp
  /\ pc = "main"
  /\ \E method \in {"GET", "POST"}, payload \in {"clean", "dirty"},
        bodyOk \in BOOLEAN, dlpOk \in BOOLEAN :
       /\ request' = [method |-> method, payload |-> payload]
       /\ response' =
            IF method = "POST" /\ ~bodyOk
            THEN [status |-> "500", findings |-> FALSE]
            ELSE IF method = "POST" /\ ~dlpOk
            THEN [status |-> "500", findings |-> FALSE]
            ELSE [status |-> "forwarded",
                  findings |-> method = "POST" /\ inspectContent(payload)]
  /\ UNCHANGED <<envVars, runVars, memoVars, progVars, histVars>>

----------------------------------------------------------------------------
Next ==
  \/ Main_000
  \/ ScanCommit_000
  \/ ScanCommitFile_000
  \/ StartFinalState_000
  \/ ScanFinalState_000
  \/ Main_002
  \/ ScanCommit_002
  \/ ScanCommitFile_002
  \/ MainReturn_002
  \/ Main_main
  \/ ScanFile_main
  \/ Main_001
  \/ ScanFile_001
  \/ RunGitPush_001
  \/ Main_003a
  \/ ScanFile_003a
  \/ Main_003b
  \/ ScanFile_003b
  \/ Gate_003b
  \/ RunGitPush_003b
  \/ payloadCheckMiddleware

Spec == Init /\ [][Next]_vars

\* part_000 is started again on the same repository after a run has ended:
\* a new process, the same commits and file contents.
Rerun ==
  /\ variant = V000
  /\ pc = "exited"
  /\ run = 1
  /\ run' = 2
  /\ prev' = [exitCode |-> exitCode, outcome |-> outcome, err |-> err,
              readFailure |-> readFailure, finalLog |-> finalLog]
  /\ pc' = "main"
  /\ ci' = 0
  /\ fi' = 0
  /\ files' = <<>>
  /\ flaggedFiles' = {}
  /\ pending' = {}
  /\ allFilesClean' = TRUE
  /\ marker' = FALSE
  /\ exitCode' = -1
  /\ outcome' = "running"
  /\ err' = "none"
  /\ inspected' = {}
  /\ inspectFailed' = FALSE
  /\ reads' = 0
  /\ listed' = FALSE
  /\ pushes' = 0
  /\ finalLog' = <<>>
  /\ readFailure' = "none"
  /\ UNCHANGED <<envVars, httpVars, memoVars>>

NextTwice == Next \/ Rerun

SpecTwice == Init /\ [][NextTwice]_vars

----------------------------------------------------------------------------
\* Properties

HistFound == {r \in inspected : r.phase = "hist" /\ r.found}
FinalFound == {r \in inspected : r.phase \in {"final", "file"} /\ r.found}
PassOneDone == ci > Len(commits)

\* C1: in the programs that push (part_001, part_003b), once a scanned file
\* has produced a finding, `git push` has not been run and is never run.
C1_NoPushWhenFindings ==
  (variant \in PushVariants /\ \E r \in inspected : r.found) => pushes = 0

\* C2: fail-closed. Once a DLPScan call has returned an error, no `git push`
\* has been run in the invocation, and the process ends with a non-zero
\* status and is not reported as clean.
C2_FailClosed ==
  inspectFailed =>
    /\ pushes = 0
    /\ pc = "exited" => (exitCode # 0 /\ outcome # "clean")

\* C3: part_000, absent errors: the run ends with findings (Abort) exactly
\* when some flagged path still has findings in its content at HEAD; flagged
\* paths that are clean at HEAD let the run proceed.
C3_HeadContentDecides ==
  (variant = V000 /\ pc = "exited" /\ outcome # "error") =>
    (outcome = "findings" <=> \E p \in flaggedFiles \cap Paths : head[p] = "dirty")

\* C4: absent read, inspection and operation errors, the process exits 0
\* exactly when every final-state inspection (ScanFinalState's in part_000,
\* each changed file's in the last-commit programs) produced no finding.
C4_ProceedIffFinalClean ==
  (variant # V002 /\ pc = "exited" /\ err \in {"none", "sensitive"}) =>
    (exitCode = 0 <=> FinalFound = {})

C6_FlaggedMonotonic ==
  [][variant = V000 => flaggedFiles \subseteq flaggedFiles']_vars

\* A path that is flagged from one commit and was then scanned clean in a
\* commit processed later, and is still flagged.
C6_Witness ==
  /\ variant = V000
  /\ \E r1 \in HistFound :
       /\ r1.path \in flaggedFiles
       /\ \E r2 \in inspected :
            /\ r2.phase = "hist"
            /\ r2.path = r1.path
            /\ ~r2.found
            /\ r2.commit > r1.commit

\* C7: part_000: at every point, flaggedFiles is exactly the set of paths
\* for which some scanned (commit, path) produced a finding.
C7_FlaggedExact ==
  variant = V000 => flaggedFiles = {r.path : r \in HistFound}

\* Some path is flagged while another scanned path, clean, is not.
C7_Witness ==
  /\ variant = V000
  /\ flaggedFiles # {}
  /\ \E r \in inspected : r.phase = "hist" /\ ~r.found /\ r.path \notin flaggedFiles

\* C8: part_000: ScanFinalState passes only flagged paths to DLPScan, each
\* at most once; with an empty flaggedFiles after the first pass it inspects
\* nothing and the process exits 0.
C8_FinalPassOnlyFlagged ==
  variant = V000 =>
    /\ \A k \in 1..Len(finalLog) : finalLog[k] \in flaggedFiles
    /\ \A j, k \in 1..Len(finalLog) : j # k => finalLog[j] # finalLog[k]
    /\ (pc = "exited" /\ PassOneDone /\ flaggedFiles = {}) =>
         (finalLog = <<>> /\ exitCode = 0 /\ outcome = "clean")

\* A path flagged from two commits, inspected once by the final pass, while
\* another changed path was never flagged; the run proceeds.
C8_Witness ==
  /\ variant = V000
  /\ pc = "exited"
  /\ exitCode = 0
  /\ Len(finalLog) = 1
  /\ Cardinality({r \in HistFound : r.path = finalLog[1]}) = 2
  /\ Touched \ flaggedFiles # {}

\* C9: in both commit-range programs, without an upstream the run ends with
\* the no-upstream error and a non-zero status, and nothing was listed, read
\* or inspected.
C9_NoUpstreamDistinct ==
  (variant \in RangeVariants /\ ~upstream /\ pc = "exited") =>
    /\ err = "no_upstream"
    /\ exitCode # 0
    /\ ~listed
    /\ reads = 0
    /\ inspected = {}
    /\ ~inspectFailed

\* C10: the process never ends with GIT_HTTP_EXTRAHEADER still set.
C10_MarkerClearedAtExit ==
  pc = "exited" => ~marker

\* The scan is still running: commits or files remain to be inspected.
Scanning == pc \in {"main", "commits", "files", "final", "gate"}

\* C11: whenever GIT_HTTP_EXTRAHEADER is set, the scan is over, every changed
\* file was inspected and none had findings.
C11_MarkerOnlyAfterCleanScan ==
  marker =>
    /\ ~Scanning
    /\ \A r \in inspected : ~r.found
    /\ variant \in LastCommitVariants => fi = Len(files)

\* C12: in the last-commit programs, exit status 0 means no inspected file
\* had findings, and a finding means a non-zero exit status.
C12_ExitZeroMeansClean ==
  (variant \in LastCommitVariants /\ pc = "exited") =>
    (exitCode = 0 <=> FinalFound = {} /\ outcome = "clean")

\* The last-commit programs that stop at the first file with findings.
FirstFindingVariants == {VMain, V003a, V003b}

\* file number j of the changed-file list was inspected
Inspected(j) == \E r \in inspected : r.path = files[j]

\* C13 as stated: a last-commit run that ends with findings ends with a
\* non-zero status and has inspected every changed file of the commit.
C13_AllOffendersReported ==
  (variant \in LastCommitVariants /\ pc = "exited" /\ FinalFound # {}
     /\ err \in {"none", "sensitive"}) =>
    /\ exitCode # 0
    /\ \A j \in 1..Len(files) : files[j] # EmptyPath => Inspected(j)

\* C13 amended: in main.go and both programs of part_003 the first file with
\* findings ends the scan: the file with the finding is the current one, no
\* later file of the list is inspected, no push is made, and the process ends
\* with a non-zero status.
C13_StopsAtFirstFinding ==
  (variant \in FirstFindingVariants /\ FinalFound # {}) =>
    /\ pc \in {"gate", "exited"}
    /\ pc = "exited" => exitCode # 0
    /\ \A r \in FinalFound : r.path = files[fi]
    /\ \A j \in (fi + 1)..Len(files) : ~Inspected(j)
    /\ pushes = 0

\* main.go ended on a finding in the first of two changed files; the second
\* was never inspected.
C13_Witness ==
  /\ variant = VMain
  /\ pc = "exited"
  /\ exitCode = 1
  /\ Len(files) = 2
  /\ \E r \in FinalFound : r.path = files[1]
  /\ ~Inspected(2)

\* C14: a path that does not exist at the revision read does not end the run
\* with a read error, whereas an I/O error of the read does end it with a
\* non-zero status.
C14_MissingNotFatal ==
  /\ readFailure = "missing" =>
       ~(pc = "exited" /\ exitCode # 0 /\ err \in {"show", "read_file"})
  /\ readFailure = "ioerror" => (pc = "exited" /\ exitCode # 0)

\* C15: a run that ends through the error path ends for a configuration,
\* listing, read, inspection or push failure and never for a finding, and a
\* run that ends with the findings outcome carries no error.
C15_FindingsNotAnError ==
  pc = "exited" =>
    /\ outcome = "error" => err \notin {"none", "sensitive"}
    /\ outcome = "findings" => err = "none"

\* A run ended for a failure that is not a function of the repository and
\* the inspector's verdicts: git or the inspection service was unavailable,
\* or a read hit an I/O error.
TransientEnd(e, rf) == e \in {"rev_list", "diff_tree", "inspect"} \/ rf = "ioerror"

\* Both runs of part_000 have ended, neither for a transient failure.
BothRunsEnded ==
  /\ variant = V000
  /\ run = 2
  /\ pc = "exited"
  /\ ~TransientEnd(prev.err, prev.readFailure)
  /\ ~TransientEnd(err, readFailure)

\* C16: two runs of part_000 over the same commits and file contents, with
\* an inspector that answers the same for the same content, end with the same
\* outcome (proceed, findings, or the same error) and the same exit status,
\* whatever the order in which ScanFinalState visits flaggedFiles.
C16_SameDecisionTwice ==
  BothRunsEnded =>
    /\ exitCode = prev.exitCode
    /\ outcome = prev.outcome

\* C17: a run ends in exactly one of Proceed (exit status 0, nothing found
\* in the decisive pass), Abort for findings, or a hard error (both with a
\* non-zero status); no run ends with a push made and a finding reported.
C17_OneTerminalState ==
  pc = "exited" =>
    /\ outcome \in {"clean", "findings", "error"}
    /\ exitCode = 0 <=> outcome = "clean"
    /\ outcome = "clean" => FinalFound = {}
    /\ ~(pushes > 0 /\ FinalFound # {})

\* C18: in the commit-range programs an empty list from git is no item: only
\* changed paths are ever read or inspected, and a range in which no commit
\* changed a file ends without a read, an inspection call or a scan failure.
C18_EmptyOutputNoItems ==
  variant \in RangeVariants =>
    /\ \A r \in inspected : r.path \in Paths
    /\ Touched = {} =>
         /\ reads = 0
         /\ inspected = {}
         /\ ~inspectFailed
         /\ err \notin {"show", "read_file", "inspect"}

\* C19: what the final-state pass and the last-commit programs inspect for a
\* path is that path's content at HEAD: the verdict recorded for a changed
\* path is the verdict of its HEAD content.
C19_InspectsHeadContent ==
  \A r \in inspected :
    (r.phase \in {"final", "file"} /\ r.path \in Paths) =>
      (r.found <=> DLPScan(head[r.path]))

\* C20: findings mean blocked in every program: the second program of
\* part_003 makes no push once a file had findings, and the HTTP middleware
\* forwards a POST request only if its payload has no findings, the logged
\* inspection result being the verdict of that payload.
C20_FindingsBlockEverywhere ==
  /\ (variant = V003b /\ FinalFound # {}) => pushes = 0
  /\ (variant = VHttp /\ request.method = "POST" /\ response.status = "forwarded") =>
       /\ ~DLPScan(request.payload)
       /\ response.findings <=> DLPScan(request.payload)

\* C21: part_000: once the commit loop is over, no step changes flaggedFiles:
\* the final-state pass, however it ends, leaves the set as the first pass
\* left it.
C21_FinalPassReadOnly ==
  [][(variant = V000 /\ PassOneDone /\ pc \in {"commits", "final", "exited"})
       => flaggedFiles' = flaggedFiles]_vars

\* The final-state pass inspected two flagged files, found both clean and
\* the run proceeds; both are still flagged.
C21_Witness ==
  /\ variant = V000
  /\ pc = "exited"
  /\ exitCode = 0
  /\ Len(finalLog) = 2
  /\ Cardinality(flaggedFiles) = 2
  /\ \A r \in inspected : r.phase = "final" => ~r.found

\* C22: in the programs that push, a push has been invoked only if every
\* changed file of the commit has been inspected and none had findings.
C22_PushAfterWholeScan ==
  (variant \in PushVariants /\ pushes > 0) =>
    /\ \A j \in 1..Len(files) : files[j] # EmptyPath => Inspected(j)
    /\ FinalFound = {}

\* C23: in the programs that push, git push is invoked at most once in a
\* run.
C23_AtMostOnePush ==
  variant \in PushVariants => pushes <= 1

====
